---- MODULE Spec2Model ----
(***************************************************************************)
(* Vibe Station API (src/main.py): the project collection of the document  *)
(* store and the handlers create_project, list_projects, get_project,      *)
(* bootstrap_ai and test_database.                                         *)
(*                                                                         *)
(* Text is a TLA+ string where the code only copies, compares or           *)
(* concatenates it, and a sequence of one-character strings where the code *)
(* looks inside it (identifiers, the category, ISO timestamps).            *)
(* Optional[...] values are None or Some(v).  Floats are integers.         *)
(***************************************************************************)
EXTENDS Integers, Sequences, FiniteSets, TLC

\* ------------------------------------------------------------------ bounds
MaxProjects == 2      \* documents the collection may hold
MaxTime == 1          \* last clock reading (store resolution)
OidHexLen == 2        \* digits of an identifier's text form (24 in bson)
NumWorkers == 2       \* request threads that may run bootstrap_ai at once

\* ------------------------------------------------------------- basic values
None == [some |-> FALSE]
Some(v) == [some |-> TRUE, val |-> v]

RECURSIVE Str(_)
\* the string made of a sequence of one-character strings
Str(cs) == IF cs = <<>> THEN "" ELSE Head(cs) \o Str(Tail(cs))

RECURSIVE Pow(_, _)
Pow(b, e) == IF e = 0 THEN 1 ELSE b * Pow(b, e - 1)

\* ------------------------------------------------------ bson.ObjectId / str
\* digits of an identifier's text form (a two-digit cut of 0-9a-f)
HexDigits == <<"0", "1">>
\* some characters that are no digits
OtherChars == {"z"}

HexBase == Len(HexDigits)
MaxOid == Pow(HexBase, OidHexLen) - 1
Oids == 0 .. MaxOid

HexVal(c) == CHOOSE i \in 1 .. HexBase : HexDigits[i] = c

RECURSIVE ToHex(_, _)
\* str(ObjectId): fixed-width digits, most significant first
ToHex(n, width) ==
    IF width = 0 THEN <<>>
    ELSE ToHex(n \div HexBase, width - 1) \o <<HexDigits[(n % HexBase) + 1]>>

RECURSIVE FromHex(_)
FromHex(s) ==
    IF s = <<>> THEN 0
    ELSE FromHex(SubSeq(s, 1, Len(s) - 1)) * HexBase + (HexVal(s[Len(s)]) - 1)

OidStr(oid) == ToHex(oid, OidHexLen)

\* ObjectId(s) raises bson.errors.InvalidId unless s is OidHexLen digits
IsValidOid(s) ==
    /\ Len(s) = OidHexLen
    /\ \A i \in 1 .. Len(s) : \E j \in 1 .. HexBase : HexDigits[j] = s[i]

ObjectId(s) == FromHex(s)

\* identifier strings a client sends: well-formed ones, of documents the
\* store can hold and of one it never holds, and malformed ones (too short,
\* too long, a non-digit inside)
IdStrings ==
    {OidStr(n) : n \in {o \in Oids : o <= MaxProjects}}
      \cup {ToHex(0, OidHexLen - 1), ToHex(0, OidHexLen + 1)}
      \cup {ToHex(0, OidHexLen - 1) \o <<c>> : c \in OtherChars}

\* --------------------------------------------------- datetime <-> ISO text
DecDigits == <<"0", "1", "2", "3", "4", "5", "6", "7", "8", "9">>

RECURSIVE IsoFormat(_)
\* datetime.isoformat(): the reading as decimal text
IsoFormat(t) ==
    IF t < 10 THEN <<DecDigits[t + 1]>>
    ELSE IsoFormat(t \div 10) \o <<DecDigits[(t % 10) + 1]>>

RECURSIVE ParseIso(_)
\* pydantic's parse of ISO text into a datetime
ParseIso(s) ==
    IF s = <<>> THEN 0
    ELSE ParseIso(SubSeq(s, 1, Len(s) - 1)) * 10
           + ((CHOOSE i \in 1 .. 10 : DecDigits[i] = s[Len(s)]) - 1)

\* ------------------------------------------------------------ text helpers
Whitespace == {" ", "\t"}
UpperToLower == [A |-> "a", I |-> "i", W |-> "w"]

\* str.lower(), one character
Lower(c) == IF c \in DOMAIN UpperToLower THEN UpperToLower[c] ELSE c
LowerText(cs) == [i \in 1 .. Len(cs) |-> Lower(cs[i])]

RECURSIVE SplitFrom(_, _, _)
\* str.split() without arguments: the maximal runs of non-whitespace
SplitFrom(cs, cur, acc) ==
    IF cs = <<>> THEN (IF cur = <<>> THEN acc ELSE Append(acc, cur))
    ELSE IF Head(cs) \in Whitespace
         THEN SplitFrom(Tail(cs), <<>>, IF cur = <<>> THEN acc ELSE Append(acc, cur))
         ELSE SplitFrom(Tail(cs), Append(cur, Head(cs)), acc)
Split(cs) == SplitFrom(cs, <<>>, <<>>)

RECURSIVE Join(_, _)
\* sep.join(items)
Join(sep, items) ==
    IF items = <<>> THEN ""
    ELSE IF Len(items) = 1 THEN items[1]
    ELSE items[1] \o sep \o Join(sep, Tail(items))

\* -------------------------------------------------------- pydantic schemas
\* HttpUrl: text written here as <<scheme, "://", host>>
IsHttpUrl(u) ==
    /\ Len(u) >= 3
    /\ u[1] \in {"http", "https"}
    /\ u[2] = "://"
    /\ u[3] # ""

LinkFields == {"external_url", "github_url", "embed_url", "zip_url"}

\* Pricing without the ge=0 constraint on amount
PricingValid_AnyAmount(p) == p.type # None

\* Pricing: type required, amount >= 0 when given, currency "USD" by default
PricingValid(p) ==
    /\ p.type # None
    /\ (p.amount # None => p.amount.val >= 0)
Pricing(p) ==
    [type |-> p.type.val, amount |-> p.amount,
     currency |-> IF p.currency = None THEN "USD" ELSE p.currency.val]

\* Links: each of the four fields absent or a well-formed URL
LinksValid(l) == \A f \in LinkFields : l[f] = None \/ IsHttpUrl(l[f].val)

\* AIInsights(): every optional field None, tags []
AIInsights ==
    [summary |-> None, pitch |-> None, landing_copy |-> None,
     deck_outline |-> None, tags |-> <<>>, readiness_score |-> None,
     market_fit_score |-> None, suggestions |-> None]

ScoreValid(s) == s = None \/ (s.val >= 0 /\ s.val <= 100)
AIInsightsValid(a) == ScoreValid(a.readiness_score) /\ ScoreValid(a.market_fit_score)

\* ProjectIn validation of a request body (a field the body omits is None)
ProjectInValid(raw) ==
    /\ raw.name # None
    /\ (raw.pricing # None => PricingValid(raw.pricing.val))
    /\ (raw.links # None => LinksValid(raw.links.val))

\* ProjectIn(...).model_dump(): the fields with their defaults filled in
ProjectIn(raw) ==
    [name |-> raw.name.val,
     description |-> raw.description,
     tech_stack |-> IF raw.tech_stack = None THEN <<>> ELSE raw.tech_stack.val,
     category |-> raw.category,
     pricing |-> IF raw.pricing = None THEN None ELSE Some(Pricing(raw.pricing.val)),
     status |-> IF raw.status = None THEN "MVP" ELSE raw.status.val,
     links |-> raw.links,
     thumbnails |-> IF raw.thumbnails = None THEN <<>> ELSE raw.thumbnails.val]

\* Project(**d): the response model built from a serialized document; a
\* document it rejects ends the request with a ValidationError
ProjectValid(d) == AIInsightsValid(d.ai)
Project(d) ==
    [id |-> d.id, name |-> d.name, description |-> d.description,
     tech_stack |-> d.tech_stack, category |-> d.category,
     pricing |-> d.pricing, status |-> d.status, links |-> d.links,
     thumbnails |-> d.thumbnails,
     created_at |-> ParseIso(d.created_at), updated_at |-> ParseIso(d.updated_at),
     ai |-> d.ai, views |-> d.views, saves |-> d.saves, watchers |-> d.watchers]

\* _serialize(doc): _id becomes its text form under "id", datetimes ISO text
Serialize(doc) ==
    [f \in (DOMAIN doc \ {"_id"}) \cup {"id"} |->
        IF f = "id" THEN OidStr(doc._id)
        ELSE IF f \in {"created_at", "updated_at"} THEN IsoFormat(doc[f])
        ELSE doc[f]]

\* ---------------------------------------------------------- request inputs
NoBody ==
    [name |-> None, description |-> None, tech_stack |-> None, category |-> None,
     pricing |-> None, status |-> None, links |-> None, thumbnails |-> None]
NoLinks ==
    [external_url |-> None, github_url |-> None, embed_url |-> None, zip_url |-> None]

CatAIWeb == <<"A", "I", " ", " ", "W", "e", "b">>

NameOnly == [NoBody EXCEPT !.name = Some("Foo")]
FullBody ==
    [NoBody EXCEPT !.name = Some("Foo"), !.description = Some("Tiny app"),
        !.tech_stack = Some(<<"Go", "React">>), !.category = Some(CatAIWeb),
        !.pricing = Some([type |-> Some("one-time"), amount |-> Some(5), currency |-> None]),
        !.links = Some([NoLinks EXCEPT !.github_url = Some(<<"https", "://", "example.com">>)])]
TechBody ==
    [NoBody EXCEPT !.name = Some("Bar"), !.description = Some(""),
        !.tech_stack = Some(<<"Go">>), !.status = Some("prototype"),
        !.pricing = Some([type |-> Some("negotiation"), amount |-> None, currency |-> None])]

ValidBodies == {NameOnly, FullBody, TechBody}
InvalidBodies ==
    {[FullBody EXCEPT !.name = None],
     [NameOnly EXCEPT !.pricing =
        Some([type |-> Some("one-time"), amount |-> Some(-1), currency |-> None])],
     [NameOnly EXCEPT !.links =
        Some([NoLinks EXCEPT !.external_url = Some(<<"not-a-url">>)])]}
Bodies == ValidBodies \cup InvalidBodies

CategoryParams == {None, Some(<<>>), Some(CatAIWeb)}
TechParams == {None, Some(""), Some("Go")}

\* -------------------------------------------------------------------- state
VARIABLES
    store,      \* the "project" collection: _id -> document
    now,        \* the clock datetime.now(timezone.utc) reads
    response,   \* the last response sent to a client
    pc,         \* per worker: where its bootstrap_ai request stands
    local       \* per worker: project_id, ai_block and timestamp of that request

vars == <<store, now, response, pc, local>>

Workers == 1 .. NumWorkers
IdleLocal == [id |-> <<>>, ai |-> AIInsights, ts |-> 0]

Resp(op, arg, status, error, body) ==
    [op |-> op, arg |-> arg, status |-> status, error |-> error, body |-> body]

\* ------------------------------------------------------ store operations
\* Every call of the store either answers (up) or raises.

\* find_one({"_id": oid}): the document with its _id, or None
FindOne(coll, oid) ==
    IF oid \in DOMAIN coll THEN Some([_id |-> oid] @@ coll[oid]) ELSE None

\* the _id the store assigns to the next inserted document
NewOid(coll) == Cardinality(DOMAIN coll)

\* create_document("project", data): insert under the assigned _id
InsertOne(coll, oid, data) ==
    [o \in DOMAIN coll \cup {oid} |-> IF o = oid THEN data ELSE coll[o]]

\* get_documents("project", filt): the documents matching every key of filt
Matches(doc, filt) ==
    /\ ("category" \in DOMAIN filt => doc.category = Some(filt.category))
    /\ ("tech_stack" \in DOMAIN filt =>
            \E i \in 1 .. Len(doc.tech_stack) : doc.tech_stack[i] \in filt.tech_stack)
GetDocuments(coll, filt) ==
    {[_id |-> o] @@ coll[o] : o \in {x \in DOMAIN coll : Matches(coll[x], filt)}}

\* an update whose filter matches every document
UpdateOne_EveryDocument(coll, oid, ai, ts) ==
    [o \in DOMAIN coll |-> [coll[o] EXCEPT !.ai = ai, !.updated_at = ts]]

\* an update whose $set leaves updated_at out
UpdateOne_NoTimestamp(coll, oid, ai, ts) ==
    IF oid \in DOMAIN coll
    THEN [coll EXCEPT ![oid] = [@ EXCEPT !.ai = ai]]
    ELSE coll

\* update_one({"_id": oid}, {"$set": {"ai": ai, "updated_at": ts}})
UpdateOne(coll, oid, ai, ts) ==
    IF oid \in DOMAIN coll
    THEN [coll EXCEPT ![oid] = [@ EXCEPT !.ai = ai, !.updated_at = ts]]
    ELSE coll

\* ------------------------------------------------- bootstrap_ai templating
DefaultDescription == "An innovative micro-app that solves a focused problem."
DeckOutline ==
    <<"Problem", "Solution", "Product Demo", "Market", "Business Model", "Roadmap">>
Suggestions ==
    <<"Add a quick demo video", "Publish a public roadmap", "Collect early user feedback">>
\* stands for the em dash U+2014
EmDash == "--"

\* doc.get("category", "").split() raises AttributeError on a stored null
AiBlockRaises(doc) == doc.category = None

\* the category tokens without lower()
CategoryTags_NoLower(doc) ==
    LET toks == Split(doc.category.val)
    IN  [i \in 1 .. Len(toks) |-> Str(toks[i])]

CategoryTags(doc) ==
    LET toks == Split(doc.category.val)
    IN  [i \in 1 .. Len(toks) |-> Str(LowerText(toks[i]))]

\* an ai_block whose tags extend the tags already stored
AiBlock_ExtendsTags(doc) ==
    LET joined == Join(", ", doc.tech_stack)
        techs == IF joined = "" THEN "modern web stack" ELSE joined
        description ==
            IF doc.description = None \/ doc.description.val = ""
            THEN DefaultDescription ELSE doc.description.val
    IN  [summary |-> Some(doc.name \o " " \o EmDash \o " " \o description),
         pitch |-> Some(doc.name
                          \o " helps teams move faster by automating key workflows using "
                          \o techs \o "."),
         landing_copy |-> Some("Ship faster with " \o doc.name \o ". Built with "
                          \o techs \o "."),
         deck_outline |-> Some(DeckOutline),
         tags |-> doc.ai.tags \o CategoryTags(doc) \o doc.tech_stack,
         readiness_score |-> Some(60),
         market_fit_score |-> Some(55),
         suggestions |-> Some(Suggestions)]

AiBlock(doc) ==
    LET name == doc.name
        description ==
            IF doc.description = None \/ doc.description.val = ""
            THEN DefaultDescription ELSE doc.description.val
        joined == Join(", ", doc.tech_stack)
        techs == IF joined = "" THEN "modern web stack" ELSE joined
    IN  [summary |-> Some(name \o " " \o EmDash \o " " \o description),
         pitch |-> Some(name \o " helps teams move faster by automating key workflows using "
                          \o techs \o "."),
         landing_copy |-> Some("Ship faster with " \o name \o ". Built with " \o techs \o "."),
         deck_outline |-> Some(DeckOutline),
         tags |-> CategoryTags(doc) \o doc.tech_stack,
         readiness_score |-> Some(60),
         market_fit_score |-> Some(55),
         suggestions |-> Some(Suggestions)]

\* ------------------------------------------------------------------ handlers
\* a document stamped with two clock readings
NewDocument_TwoReadings(raw, t) ==
    ProjectIn(raw) @@
    [ai |-> AIInsights, views |-> 0, saves |-> 0, watchers |-> 0,
     created_at |-> t, updated_at |-> t + 1]

\* create_project: the document built from the validated body
NewDocument(raw, t) ==
    ProjectIn(raw) @@
    [ai |-> AIInsights, views |-> 0, saves |-> 0, watchers |-> 0,
     created_at |-> t, updated_at |-> t]

CreateResponse(raw, coll, oid) ==
    IF ProjectValid(Serialize(FindOne(coll, oid).val))
    THEN Resp("create", raw, 200, "", Project(Serialize(FindOne(coll, oid).val)))
    ELSE Resp("create", raw, 500, "ValidationError", None)

\* POST /api/projects; fail: which of its store calls raises (1 create_document,
\* 2 find_one, 0 none)
Create(raw, fail) ==
    /\ IF ~ProjectInValid(raw)
       THEN /\ response' = Resp("create", raw, 422, "SchemaViolation", None)
            /\ store' = store
       ELSE IF fail = 1
       THEN /\ response' = Resp("create", raw, 500, "StoreUnavailable", None)
            /\ store' = store
       ELSE /\ Cardinality(DOMAIN store) < MaxProjects
            /\ store' = InsertOne(store, NewOid(store), NewDocument(raw, now))
            /\ response' =
                 IF fail # 2 THEN CreateResponse(raw, store', NewOid(store))
                 ELSE Resp("create", raw, 500, "StoreUnavailable", None)
    /\ UNCHANGED <<now, pc, local>>

\* a filter in which a given tech replaces the category key
ListFilter_TechReplaces(category, tech) ==
    IF tech # None /\ tech.val # ""
    THEN [tech_stack |-> {tech.val}]
    ELSE IF category # None /\ category.val # <<>>
    THEN [category |-> category.val]
    ELSE <<>>

\* list_projects: the filter built from the query parameters
ListFilter(category, tech) ==
    (IF category # None /\ category.val # <<>>
        THEN [category |-> category.val] ELSE <<>>) @@
    (IF tech # None /\ tech.val # ""
        THEN [tech_stack |-> {tech.val}] ELSE <<>>)

ListResponse(category, tech, up) ==
    IF ~up
    THEN Resp("list", [category |-> category, tech |-> tech], 500,
              "StoreUnavailable", None)
    ELSE IF \E d \in GetDocuments(store, ListFilter(category, tech)) :
                ~ProjectValid(Serialize(d))
    THEN Resp("list", [category |-> category, tech |-> tech], 500,
              "ValidationError", None)
    ELSE Resp("list", [category |-> category, tech |-> tech], 200, "",
              {Project(Serialize(d)) :
                   d \in GetDocuments(store, ListFilter(category, tech))})

\* GET /api/projects
List(category, tech, up) ==
    /\ response' = ListResponse(category, tech, up)
    /\ UNCHANGED <<store, now, pc, local>>

\* get_project: the try block catches InvalidId and every store exception
GetResponse(project_id, up) ==
    IF ~IsValidOid(project_id) \/ ~up
    THEN Resp("get", project_id, 400, "Invalid project id", None)
    ELSE IF FindOne(store, ObjectId(project_id)) = None
    THEN Resp("get", project_id, 404, "Project not found", None)
    ELSE IF ~ProjectValid(Serialize(FindOne(store, ObjectId(project_id)).val))
    THEN Resp("get", project_id, 500, "ValidationError", None)
    ELSE Resp("get", project_id, 200, "",
              Project(Serialize(FindOne(store, ObjectId(project_id)).val)))

\* GET /api/projects/{project_id}
Get(project_id, up) ==
    /\ response' = GetResponse(project_id, up)
    /\ UNCHANGED <<store, now, pc, local>>

\* what bootstrap_ai answers before it writes, or None when it goes on
BootstrapFailure(project_id, up) ==
    IF ~IsValidOid(project_id)
    THEN Some(Resp("bootstrapAI", project_id, 500, "InvalidId", None))
    ELSE IF ~up
    THEN Some(Resp("bootstrapAI", project_id, 500, "StoreUnavailable", None))
    ELSE IF FindOne(store, ObjectId(project_id)) = None
    THEN Some(Resp("bootstrapAI", project_id, 404, "Project not found", None))
    ELSE IF AiBlockRaises(FindOne(store, ObjectId(project_id)).val)
    THEN Some(Resp("bootstrapAI", project_id, 500, "AttributeError", None))
    ELSE None

\* the body bootstrap_ai returns: the serialized document, no response model
BootstrapResponse(project_id, coll, up) ==
    IF up
    THEN Resp("bootstrapAI", project_id, 200, "",
              Serialize(FindOne(coll, ObjectId(project_id)).val))
    ELSE Resp("bootstrapAI", project_id, 500, "StoreUnavailable", None)

\* POST /api/projects/{project_id}/bootstrap-ai as one request with no other
\* request in between; fail: which of its store calls raises (1 find_one,
\* 2 update_one, 3 the second find_one, 0 none)
BootstrapAI(project_id, fail) ==
    /\ IF BootstrapFailure(project_id, fail # 1) # None
       THEN /\ response' = BootstrapFailure(project_id, fail # 1).val
            /\ store' = store
       ELSE IF fail = 2
       THEN /\ response' = BootstrapResponse(project_id, store, FALSE)
            /\ store' = store
       ELSE /\ store' = UpdateOne(store, ObjectId(project_id),
                            AiBlock(FindOne(store, ObjectId(project_id)).val), now)
            /\ response' = BootstrapResponse(project_id, store', fail # 3)
    /\ UNCHANGED <<now, pc, local>>

\* GET /test
HealthCheck(up) ==
    /\ response' =
         Resp("healthCheck", None, 200, "",
              [database |-> IF up THEN "Connected & Working" ELSE "Connected but Error",
               collections |-> IF up /\ DOMAIN store # {} THEN {"project"} ELSE {}])
    /\ UNCHANGED <<store, now, pc, local>>

\* ---------------------------------------------------------------- environment
\* the clock advances
Tick ==
    /\ now < MaxTime
    /\ now' = now + 1
    /\ UNCHANGED <<store, response, pc, local>>

\* -------------------------------------------------------------- specification
Init ==
    /\ store = <<>>
    /\ now = 0
    /\ response = Resp("none", None, 0, "", None)
    /\ pc = [w \in Workers |-> "idle"]
    /\ local = [w \in Workers |-> IdleLocal]

Next ==
    \/ \E raw \in Bodies, fail \in 0 .. 2 : Create(raw, fail)
    \/ \E c \in CategoryParams, t \in TechParams, u \in BOOLEAN : List(c, t, u)
    \/ \E id \in IdStrings, u \in BOOLEAN : Get(id, u)
    \/ \E id \in IdStrings, fail \in 0 .. 3 : BootstrapAI(id, fail)
    \/ \E u \in BOOLEAN : HealthCheck(u)
    \/ Tick

Spec == Init /\ [][Next]_vars

\* ------------------------------------- bootstrap_ai, one store call at a time
\* Worker w takes a request: find_one, then the templating of ai_block
BootstrapFind(w, project_id, up) ==
    /\ pc[w] = "idle"
    /\ IF BootstrapFailure(project_id, up) # None
       THEN /\ response' = BootstrapFailure(project_id, up).val
            /\ UNCHANGED <<pc, local>>
       ELSE /\ pc' = [pc EXCEPT ![w] = "stamp"]
            /\ local' = [local EXCEPT ![w] =
                 [id |-> project_id,
                  ai |-> AiBlock(FindOne(store, ObjectId(project_id)).val),
                  ts |-> 0]]
            /\ UNCHANGED response
    /\ UNCHANGED <<store, now>>

\* datetime.now(timezone.utc), evaluated while the update is put together
BootstrapStamp(w) ==
    /\ pc[w] = "stamp"
    /\ local' = [local EXCEPT ![w].ts = now]
    /\ pc' = [pc EXCEPT ![w] = "update"]
    /\ UNCHANGED <<store, now, response>>

\* update_one with the ai_block and the timestamp taken before
BootstrapUpdate(w, up) ==
    /\ pc[w] = "update"
    /\ IF up
       THEN /\ store' = UpdateOne(store, ObjectId(local[w].id), local[w].ai, local[w].ts)
            /\ pc' = [pc EXCEPT ![w] = "refetch"]
            /\ UNCHANGED <<response, local>>
       ELSE /\ response' = BootstrapResponse(local[w].id, store, FALSE)
            /\ pc' = [pc EXCEPT ![w] = "idle"]
            /\ local' = [local EXCEPT ![w] = IdleLocal]
            /\ store' = store
    /\ UNCHANGED now

\* the second find_one and the response
BootstrapRefetch(w, up) ==
    /\ pc[w] = "refetch"
    /\ response' = BootstrapResponse(local[w].id, store, up)
    /\ pc' = [pc EXCEPT ![w] = "idle"]
    /\ local' = [local EXCEPT ![w] = IdleLocal]
    /\ UNCHANGED <<store, now>>

NextRace ==
    \/ \E raw \in Bodies, fail \in 0 .. 2 : Create(raw, fail)
    \/ \E w \in Workers, id \in IdStrings, u \in BOOLEAN : BootstrapFind(w, id, u)
    \/ \E w \in Workers : BootstrapStamp(w)
    \/ \E w \in Workers, u \in BOOLEAN : BootstrapUpdate(w, u)
    \/ \E w \in Workers, u \in BOOLEAN : BootstrapRefetch(w, u)
    \/ Tick

SpecRace == Init /\ [][NextRace]_vars

TypeOK ==
    /\ DOMAIN store \subseteq Oids
    /\ now \in 0 .. MaxTime

\* ==================================================================== claims
\* the stored document an identifier string names, if any
Names(project_id) == IsValidOid(project_id) /\ FromHex(project_id) \in DOMAIN store
DocOf(project_id) == store[FromHex(project_id)]
\* the Project a client is sent for a stored document
WireProject(oid, doc) ==
    [id |-> OidStr(oid), name |-> doc.name, description |-> doc.description,
     tech_stack |-> doc.tech_stack, category |-> doc.category,
     pricing |-> doc.pricing, status |-> doc.status, links |-> doc.links,
     thumbnails |-> doc.thumbnails, created_at |-> doc.created_at,
     updated_at |-> doc.updated_at, ai |-> doc.ai, views |-> doc.views,
     saves |-> doc.saves, watchers |-> doc.watchers]

\* C1: get(id) answers 400 exactly when the id is malformed (also when the
\* store fails), 404 when it is well-formed and names no document, and
\* otherwise the stored Project.
C1_GetOutcomes ==
    response.op = "get" =>
        /\ (response.status = 400 <=> ~IsValidOid(response.arg))
        /\ (response.status = 404 => IsValidOid(response.arg) /\ ~Names(response.arg))
        /\ (response.status = 200 =>
                /\ Names(response.arg)
                /\ response.body = WireProject(FromHex(response.arg), DocOf(response.arg)))
        /\ response.status \in {200, 400, 404, 500}

\* C2: bootstrapAI(id) with an id that names no stored Project, malformed or
\* well-formed, answers 404 and leaves the store as it was (a request the
\* store did not answer aside).
C2_BootstrapAbsentIsNotFound ==
    [][(/\ response'.op = "bootstrapAI"
        /\ ~(IsValidOid(response'.arg) /\ FromHex(response'.arg) \in DOMAIN store)
        /\ response'.error # "StoreUnavailable")
       => (response'.status = 404 /\ store' = store)]_vars

\* the reference derivation of ai from a Project's fields
RefDescription(doc) ==
    IF doc.description = None \/ doc.description.val = ""
    THEN "An innovative micro-app that solves a focused problem."
    ELSE doc.description.val
RefTechs(doc) ==
    IF doc.tech_stack = <<>> THEN "modern web stack" ELSE Join(", ", doc.tech_stack)
RefCategoryTags(doc) ==
    IF doc.category = None THEN <<>>
    ELSE [i \in 1 .. Len(Split(doc.category.val)) |->
            Str(LowerText(Split(doc.category.val)[i]))]
RefAI(doc) ==
    [summary |-> Some(doc.name \o " " \o EmDash \o " " \o RefDescription(doc)),
     pitch |-> Some(doc.name
                 \o " helps teams move faster by automating key workflows using "
                 \o RefTechs(doc) \o "."),
     landing_copy |-> Some("Ship faster with " \o doc.name \o ". Built with "
                 \o RefTechs(doc) \o "."),
     deck_outline |-> Some(<<"Problem", "Solution", "Product Demo", "Market",
                             "Business Model", "Roadmap">>),
     tags |-> RefCategoryTags(doc) \o doc.tech_stack,
     readiness_score |-> Some(60),
     market_fit_score |-> Some(55),
     suggestions |-> Some(<<"Add a quick demo video", "Publish a public roadmap",
                            "Collect early user feedback">>)]

\* C3: bootstrapAI on any stored Project (the store answering) succeeds and
\* the stored ai is the reference derivation from the Project's fields.
C3_BootstrapDerivesAI ==
    (/\ response.op = "bootstrapAI"
     /\ Names(response.arg)
     /\ response.error # "StoreUnavailable")
    => (/\ response.status = 200
        /\ DocOf(response.arg).ai = RefAI(DocOf(response.arg)))

FrozenFields(doc) == DOMAIN doc \ {"ai", "updated_at"}

\* C4: no step removes a document or changes a field other than ai and
\* updated_at; only bootstrapAI changes a document, and only the one it
\* addresses; views, saves and watchers are always 0.
C4_OnlyAiAndUpdatedAtChange ==
    /\ [](\A o \in DOMAIN store :
            store[o].views = 0 /\ store[o].saves = 0 /\ store[o].watchers = 0)
    /\ [][/\ DOMAIN store \subseteq DOMAIN store'
          /\ \A o \in DOMAIN store :
                /\ DOMAIN store'[o] = DOMAIN store[o]
                /\ \A f \in FrozenFields(store[o]) : store'[o][f] = store[o][f]
                /\ (store'[o] # store[o] =>
                        /\ response'.op = "bootstrapAI"
                        /\ IsValidOid(response'.arg)
                        /\ FromHex(response'.arg) = o)]_vars

C4_Witness ==
    \E o1, o2 \in DOMAIN store :
        /\ o1 # o2
        /\ store[o1].ai # AIInsights
        /\ store[o1].updated_at > store[o1].created_at
        /\ store[o2].ai = AIInsights

\* a request body that sets only name
OnlyName(raw) == raw.name # None /\ raw = [NoBody EXCEPT !.name = raw.name]
\* the Project with every default, as create answers it
DefaultProject(id, name, t) ==
    [id |-> id, name |-> name, description |-> None, tech_stack |-> <<>>,
     category |-> None, pricing |-> None, status |-> "MVP", links |-> None,
     thumbnails |-> <<>>, created_at |-> t, updated_at |-> t,
     ai |-> [summary |-> None, pitch |-> None, landing_copy |-> None,
             deck_outline |-> None, tags |-> <<>>, readiness_score |-> None,
             market_fit_score |-> None, suggestions |-> None],
     views |-> 0, saves |-> 0, watchers |-> 0]
\* a stored document made from a body that set only name
OnlyNameDoc(doc) ==
    /\ doc.description = None /\ doc.tech_stack = <<>> /\ doc.category = None
    /\ doc.pricing = None /\ doc.status = "MVP" /\ doc.links = None
    /\ doc.thumbnails = <<>>

\* C5: create with only name set succeeds (the store answering) with the
\* all-default Project under a well-formed id, stored as returned, and every
\* later get of that id returns that same Project.
C5_CreateNameOnly ==
    /\ (response.op = "create" /\ OnlyName(response.arg)) =>
          /\ (response.status = 200 \/ response.error = "StoreUnavailable")
          /\ (response.status = 200 =>
                /\ Names(response.body.id)
                /\ response.body = DefaultProject(response.body.id,
                                        response.arg.name.val, response.body.created_at)
                /\ response.body =
                     WireProject(FromHex(response.body.id), DocOf(response.body.id)))
    /\ (response.op = "get" /\ response.status = 200 /\ OnlyNameDoc(DocOf(response.arg))) =>
          response.body = DefaultProject(response.arg, DocOf(response.arg).name,
                                         DocOf(response.arg).created_at)

C5_Witness ==
    /\ response.op = "get" /\ response.status = 200
    /\ OnlyNameDoc(DocOf(response.arg))
    /\ now > DocOf(response.arg).created_at

Elements(seq) == {seq[i] : i \in 1 .. Len(seq)}
ProjectsWhere(P(_)) == {WireProject(o, store[o]) : o \in {x \in DOMAIN store : P(store[x])}}

\* C6 as claimed: every supplied filter value, the empty string too, is
\* matched exactly.
C6_ListEveryFilterValue ==
    (response.op = "list" /\ response.status = 200) =>
        LET Sat(doc) ==
              /\ (response.arg.category # None => doc.category = response.arg.category)
              /\ (response.arg.tech # None =>
                      response.arg.tech.val \in Elements(doc.tech_stack))
        IN  response.body = ProjectsWhere(Sat)

\* C6: list returns exactly the stored Projects that satisfy every supplied
\* non-empty filter (category equal, tech contained); an empty-string filter
\* is treated as not supplied; list changes no stored state.
C6_ListNonEmptyFilters ==
    /\ []((response.op = "list" /\ response.status = 200) =>
            LET Sat(doc) ==
                  /\ (response.arg.category \notin {None, Some(<<>>)} =>
                          doc.category = response.arg.category)
                  /\ (response.arg.tech \notin {None, Some("")} =>
                          response.arg.tech.val \in Elements(doc.tech_stack))
            IN  response.body = ProjectsWhere(Sat))
    /\ [][response'.op = "list" => store' = store]_vars

C6_Witness ==
    /\ response.op = "list" /\ response.status = 200
    /\ response.arg.category \notin {None, Some(<<>>)}
    /\ response.arg.tech \notin {None, Some("")}
    /\ Cardinality(response.body) = 1
    /\ Cardinality(DOMAIN store) = 2

\* C7: once a Project's ai has been set it never changes again, and every
\* successful bootstrapAI returns the stored ai: two successful calls store
\* and return the same ai.
C7_BootstrapIdempotent ==
    /\ []((response.op = "bootstrapAI" /\ response.status = 200) =>
            /\ response.body.ai = DocOf(response.arg).ai
            /\ response.body.ai # AIInsights)
    /\ [][\A o \in DOMAIN store :
            store[o].ai # AIInsights => store'[o].ai = store[o].ai]_vars

C7_Witness ==
    /\ response.op = "bootstrapAI" /\ response.status = 200
    /\ DocOf(response.arg).updated_at > DocOf(response.arg).created_at
    /\ now = DocOf(response.arg).updated_at

\* the step is a successful bootstrapAI request on document o
BootstrapStep(o) ==
    /\ now' = now
    /\ response'.op = "bootstrapAI" /\ response'.status = 200
    /\ IsValidOid(response'.arg) /\ FromHex(response'.arg) = o

\* C8 as claimed: every successful bootstrapAI leaves updated_at strictly
\* greater than it was.
C8_UpdatedAtStrictlyIncreases ==
    [][\A o \in DOMAIN store :
         BootstrapStep(o) =>
            /\ store'[o].updated_at > store[o].updated_at
            /\ store'[o].created_at = store[o].created_at]_vars

\* C8: every successful bootstrapAI stores the clock reading it took as
\* updated_at, which is not below the updated_at stored before (equal when
\* the clock has not advanced since), and created_at keeps its value.
C8_UpdatedAtNeverDecreases ==
    [][\A o \in DOMAIN store :
         BootstrapStep(o) =>
            /\ store'[o].updated_at = now
            /\ store'[o].updated_at >= store[o].updated_at
            /\ store'[o].updated_at >= store'[o].created_at
            /\ store'[o].created_at = store[o].created_at]_vars

C8_Witness ==
    /\ response.op = "bootstrapAI" /\ response.status = 200
    /\ DocOf(response.arg).updated_at > DocOf(response.arg).created_at

\* a request body the schema rejects
SchemaViolating(raw) ==
    \/ raw.name = None
    \/ (raw.pricing # None /\ raw.pricing.val.amount # None
           /\ raw.pricing.val.amount.val < 0)
    \/ (raw.links # None /\
           \E f \in DOMAIN raw.links.val :
               raw.links.val[f] # None /\ ~IsHttpUrl(raw.links.val[f].val))

\* C9: create with a body that violates the schema answers 422 and changes
\* nothing stored; every stored pricing amount is >= 0.
C9_SchemaViolationRejected ==
    /\ []((response.op = "create" /\ SchemaViolating(response.arg)) =>
            response.status = 422)
    /\ [](\A o \in DOMAIN store :
            (store[o].pricing # None /\ store[o].pricing.val.amount # None) =>
                store[o].pricing.val.amount.val >= 0)
    /\ [][(response'.op = "create" /\ SchemaViolating(response'.arg)) =>
            store' = store]_vars

C9_Witness ==
    /\ response.op = "create" /\ response.status = 422
    /\ SchemaViolating(response.arg)
    /\ \E o \in DOMAIN store : store[o].pricing # None

AiEmptyOrDerived ==
    \A o \in DOMAIN store : store[o].ai \in {AIInsights, RefAI(store[o])}

\* C10 as claimed: under interleaved bootstrapAI requests updated_at never
\* decreases, is never below created_at, and ai is empty or derived.
C10_RaceUpdatedAtMonotone ==
    /\ [](AiEmptyOrDerived /\
          \A o \in DOMAIN store : store[o].updated_at >= store[o].created_at)
    /\ [][\A o \in DOMAIN store :
            store'[o].updated_at >= store[o].updated_at]_vars

\* C10: under interleaved bootstrapAI requests updated_at is never below
\* created_at nor above the clock, and ai is empty or derived; updated_at
\* may decrease when a request writes the timestamp it took before another
\* request's write.
C10_RaceBounds ==
    /\ AiEmptyOrDerived
    /\ \A o \in DOMAIN store :
          /\ store[o].updated_at >= store[o].created_at
          /\ store[o].updated_at <= now

C10_Witness ==
    \E w1, w2 \in Workers :
        /\ pc[w1] = "refetch" /\ pc[w2] = "refetch"
        /\ local[w1].id = local[w2].id
        /\ local[w1].ts < local[w2].ts
        /\ DocOf(local[w1].id).updated_at = local[w1].ts
====
